---- MODULE Spec2Model ----
(***************************************************************************)
(* Model of the moduledata layout registry, the field decoder and the      *)
(* module record parser / validator of GoReSym                             *)
(* (objfile/moduledata_layout.go, objfile/moduledata_parser.go and its     *)
(* test file).                                                             *)
(*                                                                         *)
(* Representation:                                                         *)
(*  - a uint64 is the tuple of its 8 bytes, most significant first, so     *)
(*    that the full 64-bit width (and its wrap-around) is kept;            *)
(*  - a Go string is the tuple of its bytes (ASCII codes);                 *)
(*  - a []byte is [arr, len]: the backing array from the slice's first     *)
(*    element to its capacity, and the slice's length;                     *)
(*  - a *ModuleData is <<>> (nil) or <<record>>;                           *)
(*  - a result's err is "nil", an error kind, or "panic" for a Go          *)
(*    run-time panic (which is an abort, not a returned error).            *)
(***************************************************************************)
EXTENDS Integers, Sequences, FiniteSets, TLC

VARIABLES pc, version, is64bit, littleEndian, data, pokes,
          layout, md, err, reads, expected, verr, fo, ptrSize, rres

vars == <<pc, version, is64bit, littleEndian, data, pokes,
          layout, md, err, reads, expected, verr, fo, ptrSize, rres>>

(***************************************************************************)
(* uint64 arithmetic                                                       *)
(***************************************************************************)
Byte == 0..255

\* uint64(n) for a natural n < 2^31
U64(n) ==
  <<0, 0, 0, 0, (n \div 16777216) % 256, (n \div 65536) % 256, (n \div 256) % 256, n % 256>>

Zero64 == U64(0)

\* the int a uint64 holds, for one that is known to be below 2^31
ToInt(a) == a[5] * 16777216 + a[6] * 65536 + a[7] * 256 + a[8]

RECURSIVE Carry(_, _, _)
\* the carry into byte i-1 of a + b (bytes i..8 added), i in 1..9
Carry(a, b, i) ==
  IF i > 8 THEN 0 ELSE (a[i] + b[i] + Carry(a, b, i + 1)) \div 256

\* a + b on uint64: wraps modulo 2^64
Add64(a, b) == [i \in 1..8 |-> (a[i] + b[i] + Carry(a, b, i + 1)) % 256]

RECURSIVE Cmp64(_, _, _)
Cmp64(a, b, i) ==
  IF i > 8 THEN 0
  ELSE IF a[i] < b[i] THEN -1
  ELSE IF a[i] > b[i] THEN 1
  ELSE Cmp64(a, b, i + 1)

\* a > b on uint64
Gt64(a, b) == Cmp64(a, b, 1) = 1

Le64(a, b) == ~Gt64(a, b)

(***************************************************************************)
(* Go strings: strings.HasPrefix, strings.Compare, the comparison          *)
(* operators on strings                                                    *)
(***************************************************************************)
HasPrefix(s, prefix) ==
  Len(s) >= Len(prefix) /\ SubSeq(s, 1, Len(prefix)) = prefix

RECURSIVE Compare(_, _)
\* byte-wise lexicographic order: -1, 0 or +1
Compare(a, b) ==
  IF a = <<>> /\ b = <<>> THEN 0
  ELSE IF a = <<>> THEN -1
  ELSE IF b = <<>> THEN 1
  ELSE IF Head(a) < Head(b) THEN -1
  ELSE IF Head(a) > Head(b) THEN 1
  ELSE Compare(Tail(a), Tail(b))

\* the string literals of the program
Str_1_5  == <<49, 46, 53>>                 \* "1.5"
Str_1_7  == <<49, 46, 55>>                 \* "1.7"
Str_1_18 == <<49, 46, 49, 56>>             \* "1.18"
Str_1_20 == <<49, 46, 50, 48>>             \* "1.20"
Str_1_22 == <<49, 46, 50, 50>>             \* "1.22"
Str_64   == <<95, 54, 52>>                 \* "_64"

(***************************************************************************)
(* The layout registry                                                     *)
(***************************************************************************)
FieldOffset(offset, size) == [Offset |-> U64(offset), Size |-> U64(size)]

Absent == FieldOffset(0, 0)

\* a ModuleDataLayout literal: the fields a literal does not name are zero
ModuleDataLayout(f) ==
  [n \in {"Text", "Types", "ETypes", "Typelinks", "ITablinks", "Ftab", "Minpc",
          "Textsectmap", "LegacyTypes", "Rodata", "Gofunc", "Covctrs",
          "Ecovctrs", "InitTasks", "PtrSize"} |->
     IF n \in DOMAIN f THEN f[n]
     ELSE IF n = "PtrSize" THEN Zero64 ELSE Absent]

Layout_1_5 ==
  ModuleDataLayout([Text |-> FieldOffset(\H40, 4), Types |-> FieldOffset(0, 0),
    ETypes |-> FieldOffset(0, 0), Typelinks |-> FieldOffset(\H60, 12),
    ITablinks |-> FieldOffset(0, 0), Ftab |-> FieldOffset(\H8, 12),
    Minpc |-> FieldOffset(\H20, 4), Textsectmap |-> FieldOffset(0, 0),
    LegacyTypes |-> FieldOffset(\H60, 12), PtrSize |-> U64(4)])

Layout_1_5_64 ==
  ModuleDataLayout([Text |-> FieldOffset(\H80, 8), Types |-> FieldOffset(0, 0),
    ETypes |-> FieldOffset(0, 0), Typelinks |-> FieldOffset(\Hc0, 24),
    ITablinks |-> FieldOffset(0, 0), Ftab |-> FieldOffset(\H10, 24),
    Minpc |-> FieldOffset(\H40, 8), Textsectmap |-> FieldOffset(0, 0),
    LegacyTypes |-> FieldOffset(\Hc0, 24), PtrSize |-> U64(8)])

\* the "1.7" entry with a slice's size (12) entered for the scalar Types
Layout_1_7_typesSize12 ==
  ModuleDataLayout([Text |-> FieldOffset(\H40, 4), Types |-> FieldOffset(\H60, 12),
    ETypes |-> FieldOffset(\H64, 4), Typelinks |-> FieldOffset(\H68, 12),
    ITablinks |-> FieldOffset(\H74, 12), Ftab |-> FieldOffset(\H8, 12),
    Minpc |-> FieldOffset(\H20, 4), Textsectmap |-> FieldOffset(0, 0),
    PtrSize |-> U64(4)])

Layout_1_7 ==
  ModuleDataLayout([Text |-> FieldOffset(\H40, 4), Types |-> FieldOffset(\H60, 4),
    ETypes |-> FieldOffset(\H64, 4), Typelinks |-> FieldOffset(\H68, 12),
    ITablinks |-> FieldOffset(\H74, 12), Ftab |-> FieldOffset(\H8, 12),
    Minpc |-> FieldOffset(\H20, 4), Textsectmap |-> FieldOffset(0, 0),
    PtrSize |-> U64(4)])

Layout_1_7_64 ==
  ModuleDataLayout([Text |-> FieldOffset(\H80, 8), Types |-> FieldOffset(\Hc0, 8),
    ETypes |-> FieldOffset(\Hc8, 8), Typelinks |-> FieldOffset(\Hd0, 24),
    ITablinks |-> FieldOffset(\He8, 24), Ftab |-> FieldOffset(\H10, 24),
    Minpc |-> FieldOffset(\H40, 8), Textsectmap |-> FieldOffset(0, 0),
    PtrSize |-> U64(8)])

Layout_1_18 ==
  ModuleDataLayout([Text |-> FieldOffset(\H40, 4), Types |-> FieldOffset(\H60, 4),
    ETypes |-> FieldOffset(\H64, 4), Typelinks |-> FieldOffset(\H68, 12),
    ITablinks |-> FieldOffset(\H74, 12), Ftab |-> FieldOffset(\H8, 12),
    Minpc |-> FieldOffset(\H20, 4), Textsectmap |-> FieldOffset(\H80, 12),
    Rodata |-> FieldOffset(\H70, 4), Gofunc |-> FieldOffset(\H74, 4),
    PtrSize |-> U64(4)])

Layout_1_18_64 ==
  ModuleDataLayout([Text |-> FieldOffset(\H80, 8), Types |-> FieldOffset(\Hc0, 8),
    ETypes |-> FieldOffset(\Hc8, 8), Typelinks |-> FieldOffset(\Hd0, 24),
    ITablinks |-> FieldOffset(\He8, 24), Ftab |-> FieldOffset(\H10, 24),
    Minpc |-> FieldOffset(\H40, 8), Textsectmap |-> FieldOffset(\H100, 24),
    Rodata |-> FieldOffset(\He0, 8), Gofunc |-> FieldOffset(\He8, 8),
    PtrSize |-> U64(8)])

Layout_1_20 ==
  ModuleDataLayout([Text |-> FieldOffset(\H40, 4), Types |-> FieldOffset(\H60, 4),
    ETypes |-> FieldOffset(\H64, 4), Typelinks |-> FieldOffset(\H68, 12),
    ITablinks |-> FieldOffset(\H74, 12), Ftab |-> FieldOffset(\H8, 12),
    Minpc |-> FieldOffset(\H20, 4), Textsectmap |-> FieldOffset(\H80, 12),
    Rodata |-> FieldOffset(\H70, 4), Gofunc |-> FieldOffset(\H74, 4),
    Covctrs |-> FieldOffset(\H78, 4), Ecovctrs |-> FieldOffset(\H7c, 4),
    PtrSize |-> U64(4)])

Layout_1_20_64 ==
  ModuleDataLayout([Text |-> FieldOffset(\H80, 8), Types |-> FieldOffset(\Hc0, 8),
    ETypes |-> FieldOffset(\Hc8, 8), Typelinks |-> FieldOffset(\Hd0, 24),
    ITablinks |-> FieldOffset(\He8, 24), Ftab |-> FieldOffset(\H10, 24),
    Minpc |-> FieldOffset(\H40, 8), Textsectmap |-> FieldOffset(\H100, 24),
    Rodata |-> FieldOffset(\He0, 8), Gofunc |-> FieldOffset(\He8, 8),
    Covctrs |-> FieldOffset(\Hf0, 8), Ecovctrs |-> FieldOffset(\Hf8, 8),
    PtrSize |-> U64(8)])

Layout_1_22 ==
  ModuleDataLayout([Text |-> FieldOffset(\H40, 4), Types |-> FieldOffset(\H60, 4),
    ETypes |-> FieldOffset(\H64, 4), Typelinks |-> FieldOffset(\H68, 12),
    ITablinks |-> FieldOffset(\H74, 12), Ftab |-> FieldOffset(\H8, 12),
    Minpc |-> FieldOffset(\H20, 4), Textsectmap |-> FieldOffset(\H80, 12),
    Rodata |-> FieldOffset(\H70, 4), Gofunc |-> FieldOffset(\H74, 4),
    Covctrs |-> FieldOffset(\H78, 4), Ecovctrs |-> FieldOffset(\H7c, 4),
    InitTasks |-> FieldOffset(\H8c, 12), PtrSize |-> U64(4)])

Layout_1_22_64 ==
  ModuleDataLayout([Text |-> FieldOffset(\H80, 8), Types |-> FieldOffset(\Hc0, 8),
    ETypes |-> FieldOffset(\Hc8, 8), Typelinks |-> FieldOffset(\Hd0, 24),
    ITablinks |-> FieldOffset(\He8, 24), Ftab |-> FieldOffset(\H10, 24),
    Minpc |-> FieldOffset(\H40, 8), Textsectmap |-> FieldOffset(\H100, 24),
    Rodata |-> FieldOffset(\He0, 8), Gofunc |-> FieldOffset(\He8, 8),
    Covctrs |-> FieldOffset(\Hf0, 8), Ecovctrs |-> FieldOffset(\Hf8, 8),
    InitTasks |-> FieldOffset(\H118, 24), PtrSize |-> U64(8)])

\* the map from key to layout
versionLayoutMap ==
  (Str_1_5 :> Layout_1_5) @@ ((Str_1_5 \o Str_64) :> Layout_1_5_64) @@
  (Str_1_7 :> Layout_1_7) @@ ((Str_1_7 \o Str_64) :> Layout_1_7_64) @@
  (Str_1_18 :> Layout_1_18) @@ ((Str_1_18 \o Str_64) :> Layout_1_18_64) @@
  (Str_1_20 :> Layout_1_20) @@ ((Str_1_20 \o Str_64) :> Layout_1_20_64) @@
  (Str_1_22 :> Layout_1_22) @@ ((Str_1_22 \o Str_64) :> Layout_1_22_64)

\* the layout returned for a key that is not in the map
DefaultLayout == ModuleDataLayout([PtrSize |-> U64(4)])

\* getLayout with the newest layout of the bitness as the fallback
getLayout_newestFallback(v, b) ==
  LET key == IF b THEN v \o Str_64 ELSE v
  IN IF key \in DOMAIN versionLayoutMap THEN versionLayoutMap[key]
     ELSE IF b THEN Layout_1_22_64 ELSE Layout_1_22

getLayout(v, b) ==
  LET key == IF b THEN v \o Str_64 ELSE v
  IN IF key \in DOMAIN versionLayoutMap THEN versionLayoutMap[key] ELSE DefaultLayout

(***************************************************************************)
(* Go byte slices and encoding/binary                                      *)
(***************************************************************************)
\* s[lo:hi] is legal when lo <= hi <= cap(s); otherwise the run time panics
SliceOK(s, lo, hi) == Le64(lo, hi) /\ Le64(hi, U64(Len(s.arr)))

\* s[lo:hi], for a legal one
SliceExpr(s, lo, hi) ==
  [arr |-> SubSeq(s.arr, ToInt(lo) + 1, Len(s.arr)), len |-> ToInt(hi) - ToInt(lo)]

\* Uint32 reading its bytes in the other order
LittleEndianUint32_bigEndian(b) == <<0, 0, 0, 0, b.arr[1], b.arr[2], b.arr[3], b.arr[4]>>

\* binary.LittleEndian.Uint64(b), b of length 8 or more
LittleEndianUint64(b) ==
  <<b.arr[8], b.arr[7], b.arr[6], b.arr[5], b.arr[4], b.arr[3], b.arr[2], b.arr[1]>>

\* binary.BigEndian.Uint64(b)
BigEndianUint64(b) ==
  <<b.arr[1], b.arr[2], b.arr[3], b.arr[4], b.arr[5], b.arr[6], b.arr[7], b.arr[8]>>

\* uint64(binary.LittleEndian.Uint32(b)), b of length 4 or more
LittleEndianUint32(b) == <<0, 0, 0, 0, b.arr[4], b.arr[3], b.arr[2], b.arr[1]>>

\* uint64(binary.BigEndian.Uint32(b))
BigEndianUint32(b) == <<0, 0, 0, 0, b.arr[1], b.arr[2], b.arr[3], b.arr[4]>>

(***************************************************************************)
(* The field decoder                                                       *)
(***************************************************************************)
GoSlice64(d, l, c) == [Data |-> d, Len |-> l, Capacity |-> c]

ZeroSlice == GoSlice64(Zero64, Zero64, Zero64)

\* readField without the bounds check of lines 215-217
readField_noBoundsCheck(d, offset, le) ==
  LET end == Add64(offset.Offset, offset.Size) IN
  IF offset.Size = Zero64 THEN [val |-> Zero64, err |-> "nil"]
  ELSE IF ~SliceOK(d, offset.Offset, end) THEN [val |-> Zero64, err |-> "panic"]
  ELSE LET fieldData == SliceExpr(d, offset.Offset, end) IN
    IF offset.Size = U64(8)
      THEN [val |-> IF le THEN LittleEndianUint64(fieldData) ELSE BigEndianUint64(fieldData),
            err |-> "nil"]
    ELSE IF offset.Size = U64(4)
      THEN [val |-> IF le THEN LittleEndianUint32(fieldData) ELSE BigEndianUint32(fieldData),
            err |-> "nil"]
    ELSE [val |-> Zero64, err |-> "unsupported"]

\* readField without the absent-field return of lines 212-214
readField_noAbsentCheck(d, offset, le) ==
  LET end == Add64(offset.Offset, offset.Size) IN
  IF Gt64(end, U64(d.len)) THEN [val |-> Zero64, err |-> "bounds"]
  ELSE IF ~SliceOK(d, offset.Offset, end) THEN [val |-> Zero64, err |-> "panic"]
  ELSE LET fieldData == SliceExpr(d, offset.Offset, end) IN
    IF offset.Size = U64(8)
      THEN [val |-> IF le THEN LittleEndianUint64(fieldData) ELSE BigEndianUint64(fieldData),
            err |-> "nil"]
    ELSE IF offset.Size = U64(4)
      THEN [val |-> IF le THEN LittleEndianUint32(fieldData) ELSE BigEndianUint32(fieldData),
            err |-> "nil"]
    ELSE [val |-> Zero64, err |-> "unsupported"]

readField(d, offset, le) ==
  LET end == Add64(offset.Offset, offset.Size) IN
  IF offset.Size = Zero64 THEN [val |-> Zero64, err |-> "nil"]
  ELSE IF Gt64(end, U64(d.len)) THEN [val |-> Zero64, err |-> "bounds"]
  ELSE IF ~SliceOK(d, offset.Offset, end) THEN [val |-> Zero64, err |-> "panic"]
  ELSE LET fieldData == SliceExpr(d, offset.Offset, end) IN
    IF offset.Size = U64(8)
      THEN [val |-> IF le THEN LittleEndianUint64(fieldData) ELSE BigEndianUint64(fieldData),
            err |-> "nil"]
    ELSE IF offset.Size = U64(4)
      THEN [val |-> IF le THEN LittleEndianUint32(fieldData) ELSE BigEndianUint32(fieldData),
            err |-> "nil"]
    ELSE [val |-> Zero64, err |-> "unsupported"]

readSlice(d, offset, ptrSz, le) ==
  LET end == Add64(offset.Offset, offset.Size) IN
  IF offset.Size = Zero64 THEN [val |-> ZeroSlice, err |-> "nil"]
  ELSE IF Gt64(end, U64(d.len)) THEN [val |-> ZeroSlice, err |-> "bounds"]
  ELSE IF ~SliceOK(d, offset.Offset, end) THEN [val |-> ZeroSlice, err |-> "panic"]
  ELSE LET sliceData == SliceExpr(d, offset.Offset, end) IN
    IF ptrSz = U64(8)
      THEN IF ~(SliceOK(sliceData, U64(0), U64(8)) /\ SliceOK(sliceData, U64(8), U64(16))
                /\ SliceOK(sliceData, U64(16), U64(24)))
             THEN [val |-> ZeroSlice, err |-> "panic"]
           ELSE LET w0 == SliceExpr(sliceData, U64(0), U64(8))
                    w1 == SliceExpr(sliceData, U64(8), U64(16))
                    w2 == SliceExpr(sliceData, U64(16), U64(24))
                IN [val |-> IF le
                      THEN GoSlice64(LittleEndianUint64(w0), LittleEndianUint64(w1),
                                     LittleEndianUint64(w2))
                      ELSE GoSlice64(BigEndianUint64(w0), BigEndianUint64(w1),
                                     BigEndianUint64(w2)),
                    err |-> "nil"]
      ELSE IF ~(SliceOK(sliceData, U64(0), U64(4)) /\ SliceOK(sliceData, U64(4), U64(8))
                /\ SliceOK(sliceData, U64(8), U64(12)))
             THEN [val |-> ZeroSlice, err |-> "panic"]
           ELSE LET w0 == SliceExpr(sliceData, U64(0), U64(4))
                    w1 == SliceExpr(sliceData, U64(4), U64(8))
                    w2 == SliceExpr(sliceData, U64(8), U64(12))
                IN [val |-> IF le
                      THEN GoSlice64(LittleEndianUint32(w0), LittleEndianUint32(w1),
                                     LittleEndianUint32(w2))
                      ELSE GoSlice64(BigEndianUint32(w0), BigEndianUint32(w1),
                                     BigEndianUint32(w2)),
                    err |-> "nil"]

(***************************************************************************)
(* The module record parser                                                *)
(***************************************************************************)
\* &ModuleData{}: every field at its zero value
ModuleData ==
  [TextVA |-> Zero64, Types |-> Zero64, ETypes |-> Zero64, Typelinks |-> ZeroSlice,
   ITablinks |-> ZeroSlice, LegacyTypes |-> ZeroSlice, Rodata |-> Zero64,
   Gofunc |-> Zero64, Covctrs |-> Zero64, Ecovctrs |-> Zero64, InitTasks |-> ZeroSlice]

Nil == <<>>

NoErr == [field |-> "", cause |-> "nil"]

\* return nil, fmt.Errorf("failed to read <field> field: %v", err); rd: the reads made
Fail(field, r, rd) == [md |-> Nil, err |-> [field |-> field, cause |-> r.err], reads |-> rd]

\* return md, nil
Ok(m, rd) == [md |-> <<m>>, err |-> NoErr, reads |-> rd]

\* the version-specific part of ParseModuleData (lines 41-82); m is the record
\* so far, rd the fields read so far
ParseVersionSpecific(d, v, lay, le, m, rd) ==
  IF HasPrefix(v, Str_1_5) THEN
    LET r == readSlice(d, lay.LegacyTypes, lay.PtrSize, le)
        rd1 == Append(rd, "LegacyTypes")
    IN IF r.err # "nil" THEN Fail("LegacyTypes", r, rd1)
       ELSE Ok([m EXCEPT !.LegacyTypes = r.val], rd1)
  ELSE IF Compare(v, Str_1_7) >= 0 THEN
    LET r1 == readField(d, lay.Rodata, le)
        rd1 == Append(rd, "Rodata")
        m1 == [m EXCEPT !.Rodata = r1.val]
        r2 == readField(d, lay.Gofunc, le)
        rd2 == Append(rd1, "Gofunc")
        m2 == [m1 EXCEPT !.Gofunc = r2.val]
    IN IF r1.err # "nil" THEN Fail("Rodata", r1, rd1)
       ELSE IF r2.err # "nil" THEN Fail("Gofunc", r2, rd2)
       ELSE IF Compare(v, Str_1_20) >= 0 THEN
         LET r3 == readField(d, lay.Covctrs, le)
             rd3 == Append(rd2, "Covctrs")
             m3 == [m2 EXCEPT !.Covctrs = r3.val]
             r4 == readField(d, lay.Ecovctrs, le)
             rd4 == Append(rd3, "Ecovctrs")
             m4 == [m3 EXCEPT !.Ecovctrs = r4.val]
         IN IF r3.err # "nil" THEN Fail("Covctrs", r3, rd3)
            ELSE IF r4.err # "nil" THEN Fail("Ecovctrs", r4, rd4)
            ELSE IF Compare(v, Str_1_22) >= 0 THEN
              LET r5 == readSlice(d, lay.InitTasks, lay.PtrSize, le)
                  rd5 == Append(rd4, "InitTasks")
              IN IF r5.err # "nil" THEN Fail("InitTasks", r5, rd5)
                 ELSE Ok([m4 EXCEPT !.InitTasks = r5.val], rd5)
            ELSE Ok(m4, rd4)
       ELSE Ok(m2, rd2)
  ELSE Ok(m, rd)

\* ParseModuleData without the error check after the Typelinks read (lines 32-34)
ParseModuleData_typelinksUnchecked(d, v, b, le) ==
  LET lay == getLayout(v, b)
      r1 == readField(d, lay.Text, le)
      m1 == [ModuleData EXCEPT !.TextVA = r1.val]
      r2 == readField(d, lay.Types, le)
      m2 == [m1 EXCEPT !.Types = r2.val]
      r3 == readField(d, lay.ETypes, le)
      m3 == [m2 EXCEPT !.ETypes = r3.val]
      r4 == readSlice(d, lay.Typelinks, lay.PtrSize, le)
      m4 == [m3 EXCEPT !.Typelinks = r4.val]
      r5 == readSlice(d, lay.ITablinks, lay.PtrSize, le)
      m5 == [m4 EXCEPT !.ITablinks = r5.val]
  IN IF r1.err # "nil" THEN Fail("TextVA", r1, <<"TextVA">>)
     ELSE IF r2.err # "nil" THEN Fail("Types", r2, <<"TextVA", "Types">>)
     ELSE IF r3.err # "nil" THEN Fail("ETypes", r3, <<"TextVA", "Types", "ETypes">>)
     ELSE IF r5.err # "nil"
       THEN Fail("ITablinks", r5, <<"TextVA", "Types", "ETypes", "Typelinks", "ITablinks">>)
     ELSE ParseVersionSpecific(d, v, lay, le, m5,
            <<"TextVA", "Types", "ETypes", "Typelinks", "ITablinks">>)

ParseModuleData(d, v, b, le) ==
  LET lay == getLayout(v, b)
      r1 == readField(d, lay.Text, le)
      m1 == [ModuleData EXCEPT !.TextVA = r1.val]
      r2 == readField(d, lay.Types, le)
      m2 == [m1 EXCEPT !.Types = r2.val]
      r3 == readField(d, lay.ETypes, le)
      m3 == [m2 EXCEPT !.ETypes = r3.val]
      r4 == readSlice(d, lay.Typelinks, lay.PtrSize, le)
      m4 == [m3 EXCEPT !.Typelinks = r4.val]
      r5 == readSlice(d, lay.ITablinks, lay.PtrSize, le)
      m5 == [m4 EXCEPT !.ITablinks = r5.val]
  IN IF r1.err # "nil" THEN Fail("TextVA", r1, <<"TextVA">>)
     ELSE IF r2.err # "nil" THEN Fail("Types", r2, <<"TextVA", "Types">>)
     ELSE IF r3.err # "nil" THEN Fail("ETypes", r3, <<"TextVA", "Types", "ETypes">>)
     ELSE IF r4.err # "nil"
       THEN Fail("Typelinks", r4, <<"TextVA", "Types", "ETypes", "Typelinks">>)
     ELSE IF r5.err # "nil"
       THEN Fail("ITablinks", r5, <<"TextVA", "Types", "ETypes", "Typelinks", "ITablinks">>)
     ELSE ParseVersionSpecific(d, v, lay, le, m5,
            <<"TextVA", "Types", "ETypes", "Typelinks", "ITablinks">>)

(***************************************************************************)
(* The validator                                                           *)
(***************************************************************************)
\* ValidateModuleData without the InitTasks check of lines 105-107
ValidateModuleData_noInitTasks(m, firstFuncEntry) ==
  IF m.TextVA # firstFuncEntry THEN "TextVA"
  ELSE IF Gt64(m.Typelinks.Len, m.Typelinks.Capacity) THEN "Typelinks"
  ELSE IF Gt64(m.ITablinks.Len, m.ITablinks.Capacity) THEN "ITablinks"
  ELSE IF Gt64(m.LegacyTypes.Len, m.LegacyTypes.Capacity) THEN "LegacyTypes"
  ELSE "nil"

\* the error returned, named by the check that fails; "nil" when none does
ValidateModuleData(m, firstFuncEntry) ==
  IF m.TextVA # firstFuncEntry THEN "TextVA"
  ELSE IF Gt64(m.Typelinks.Len, m.Typelinks.Capacity) THEN "Typelinks"
  ELSE IF Gt64(m.ITablinks.Len, m.ITablinks.Capacity) THEN "ITablinks"
  ELSE IF Gt64(m.LegacyTypes.Len, m.LegacyTypes.Capacity) THEN "LegacyTypes"
  ELSE IF Gt64(m.InitTasks.Len, m.InitTasks.Capacity) THEN "InitTasks"
  ELSE "nil"

(***************************************************************************)
(* The test's buffer builder                                               *)
(***************************************************************************)
BufLen == 1024

\* make([]byte, n)
MakeBytes(n) == [arr |-> [i \in 1..n |-> 0], len |-> n]

\* copy bs into buf from index off on (binary.LittleEndian.PutUintNN(buf[off:], v))
PutBytes(buf, off, bs) ==
  [buf EXCEPT !.arr = [i \in 1..Len(buf.arr) |->
     IF i > off /\ i <= off + Len(bs) THEN bs[i - off] ELSE buf.arr[i]]]

\* binary.LittleEndian.PutUint64(buf[off:], v)
PutUint64(buf, off, v) ==
  PutBytes(buf, off, <<v[8], v[7], v[6], v[5], v[4], v[3], v[2], v[1]>>)

\* binary.LittleEndian.PutUint32(buf[off:], uint32(v))
PutUint32(buf, off, v) == PutBytes(buf, off, <<v[8], v[7], v[6], v[5]>>)

writeAt(buf, b, offset, value) ==
  IF offset.Size = Zero64 THEN buf
  ELSE IF b THEN PutUint64(buf, ToInt(offset.Offset), value)
  ELSE PutUint32(buf, ToInt(offset.Offset), value)

writeSlice(buf, b, offset, d, length, capacity) ==
  IF offset.Size = Zero64 THEN buf
  ELSE IF b THEN
    PutUint64(PutUint64(PutUint64(buf, ToInt(offset.Offset), d),
                        ToInt(offset.Offset) + 8, length),
              ToInt(offset.Offset) + 16, capacity)
  ELSE
    PutUint32(PutUint32(PutUint32(buf, ToInt(offset.Offset), d),
                        ToInt(offset.Offset) + 4, length),
              ToInt(offset.Offset) + 8, capacity)

createTestModuleData(v, b) ==
  LET lay == getLayout(v, b)
      b0 == MakeBytes(BufLen)
      b1 == writeAt(b0, b, lay.Text, U64(\H1000))
      b2 == writeAt(b1, b, lay.Types, U64(\H2000))
      b3 == writeAt(b2, b, lay.ETypes, U64(\H3000))
      b4 == writeAt(b3, b, lay.Minpc, U64(\H4000))
      b5 == writeSlice(b4, b, lay.Typelinks, U64(\H5000), U64(10), U64(20))
      b6 == writeSlice(b5, b, lay.ITablinks, U64(\H6000), U64(15), U64(25))
      b7 == writeSlice(b6, b, lay.Ftab, U64(\H7000), U64(20), U64(30))
  IN IF v = Str_1_5 THEN writeSlice(b7, b, lay.LegacyTypes, U64(\H8000), U64(10), U64(20))
     ELSE IF Compare(v, Str_1_18) >= 0 THEN
       LET b8 == writeAt(b7, b, lay.Rodata, U64(\H9000))
           b9 == writeAt(b8, b, lay.Gofunc, U64(\Ha000))
       IN IF Compare(v, Str_1_20) >= 0 THEN
            LET b10 == writeAt(b9, b, lay.Covctrs, U64(\Hb000))
                b11 == writeAt(b10, b, lay.Ecovctrs, U64(\Hc000))
            IN IF Compare(v, Str_1_22) >= 0
                 THEN writeSlice(b11, b, lay.InitTasks, U64(\Hd000), U64(5), U64(10))
                 ELSE b11
          ELSE b9
     ELSE b7

(***************************************************************************)
(* Inputs                                                                  *)
(***************************************************************************)
\* how many bytes of a buffer a caller overwrites before parsing it
MaxPokes == 1

\* version strings a caller passes: the registered ones, "9.99", "1.21",
\* "1.5.1" and the empty string
Versions ==
  {Str_1_5, Str_1_7, Str_1_18, Str_1_20, Str_1_22,
   <<57, 46, 57, 57>>, <<49, 46, 50, 49>>, <<49, 46, 53, 46, 49>>, <<>>}

\* where a caller overwrites a byte, and with what
PokeOffsets == {\H40, \H6c, \H87, \Hd8}

PokeBytes == {255}

\* the lengths a caller cuts a buffer to
TruncLens == {0, \H44, \H6e, \H74, \H80, \H88, \Hd0, \He8, \H100, \H130}

\* 2^64 - n, for n in 1..255
Top64(n) == <<255, 255, 255, 255, 255, 255, 255, 256 - n>>

\* 2^63
Half64 == <<128, 0, 0, 0, 0, 0, 0, 0>>

\* the FieldOffset values given to the decoder directly
ReadOffsets ==
  {U64(0), U64(4), U64(8), U64(20), U64(30), Top64(1), Top64(4), Top64(8),
   Top64(12), Top64(24), Half64}

ReadSizes == {U64(0), U64(4), U64(8), U64(12), U64(24), U64(5)}

\* the buffers given to the decoder directly: byte i holds i + 1
ReadBufLens == {0, 4, 8, 12, 24, 32}

PatternBytes(n) == [arr |-> [i \in 1..n |-> i], len |-> n]

\* the records given to the validator directly
MDTextVAs == {U64(\H1000), U64(\H5000)}

MDSlices ==
  {ZeroSlice, GoSlice64(U64(\Hd000), U64(5), U64(10)),
   GoSlice64(U64(\Hd000), U64(11), U64(10)), GoSlice64(U64(\Hd000), Half64, U64(10))}

Expecteds == {U64(\H1000), U64(\H5000)}

(***************************************************************************)
(* The state machine: a caller of the package                              *)
(***************************************************************************)
Init ==
  /\ pc = "start"
  /\ version = <<>>
  /\ is64bit = FALSE
  /\ littleEndian = FALSE
  /\ data = MakeBytes(0)
  /\ pokes = 0
  /\ layout = DefaultLayout
  /\ md = Nil
  /\ err = NoErr
  /\ reads = <<>>
  /\ expected = Zero64
  /\ verr = "nil"
  /\ fo = Absent
  /\ ptrSize = Zero64
  /\ rres = [val |-> Zero64, err |-> "nil"]

\* the caller allocates a zeroed buffer for a version and bitness
Alloc(v, b) ==
  /\ pc = "start"
  /\ pc' = "alloc"
  /\ version' = v
  /\ is64bit' = b
  /\ data' = MakeBytes(BufLen)
  /\ UNCHANGED <<littleEndian, pokes, layout, md, err, reads, expected, verr, fo,
                 ptrSize, rres>>

\* createTestModuleData(version, is64bit)
CreateTest ==
  /\ pc = "alloc"
  /\ pokes = 0
  /\ pc' = "built"
  /\ data' = createTestModuleData(version, is64bit)
  /\ UNCHANGED <<version, is64bit, littleEndian, pokes, layout, md, err, reads,
                 expected, verr, fo, ptrSize, rres>>

\* the buffer's contents are the caller's: one byte of it is overwritten
Poke(i, x) ==
  /\ pc \in {"alloc", "built"}
  /\ pokes < MaxPokes
  /\ pokes' = pokes + 1
  /\ data' = PutBytes(data, i, <<x>>)
  /\ UNCHANGED <<pc, version, is64bit, littleEndian, layout, md, err, reads,
                 expected, verr, fo, ptrSize, rres>>

\* data = data[:n], or a copy of it with no spare capacity
Truncate(n, copy) ==
  /\ pc \in {"alloc", "built"}
  /\ n <= data.len
  /\ pc' = "cut"
  /\ data' = IF copy THEN [arr |-> SubSeq(data.arr, 1, n), len |-> n]
             ELSE [data EXCEPT !.len = n]
  /\ UNCHANGED <<version, is64bit, littleEndian, pokes, layout, md, err, reads,
                 expected, verr, fo, ptrSize, rres>>

\* md, err := ParseModuleData(data, version, is64bit, le)
Parse(le) ==
  /\ pc \in {"alloc", "built", "cut"}
  /\ pc' = "parsed"
  /\ littleEndian' = le
  /\ layout' = getLayout(version, is64bit)
  /\ LET r == ParseModuleData(data, version, is64bit, le)
     IN /\ md' = r.md
        /\ err' = r.err
        /\ reads' = r.reads
  /\ UNCHANGED <<version, is64bit, data, pokes, expected, verr, fo, ptrSize, rres>>

\* the caller builds a record itself
MakeMD(t, tl, il, lt, it) ==
  /\ pc = "start"
  /\ pc' = "made"
  /\ md' = <<[ModuleData EXCEPT !.TextVA = t, !.Typelinks = tl, !.ITablinks = il,
                                !.LegacyTypes = lt, !.InitTasks = it]>>
  /\ UNCHANGED <<version, is64bit, littleEndian, data, pokes, layout, err, reads,
                 expected, verr, fo, ptrSize, rres>>

\* verr := ValidateModuleData(md, e)
Validate(e) ==
  /\ pc \in {"parsed", "made"}
  /\ md # Nil
  /\ pc' = "validated"
  /\ expected' = e
  /\ verr' = ValidateModuleData(md[1], e)
  /\ UNCHANGED <<version, is64bit, littleEndian, data, pokes, layout, md, err, reads,
                 fo, ptrSize, rres>>

\* the caller picks the arguments of a direct call of the decoder
PickRead(n, off, size, ps, le) ==
  /\ pc = "start"
  /\ pc' = "read"
  /\ data' = PatternBytes(n)
  /\ fo' = [Offset |-> off, Size |-> size]
  /\ ptrSize' = ps
  /\ littleEndian' = le
  /\ UNCHANGED <<version, is64bit, pokes, layout, md, err, reads, expected, verr, rres>>

\* rres := readField(data, fo, littleEndian)
ReadField ==
  /\ pc = "read"
  /\ pc' = "readField"
  /\ rres' = readField(data, fo, littleEndian)
  /\ UNCHANGED <<version, is64bit, littleEndian, data, pokes, layout, md, err, reads,
                 expected, verr, fo, ptrSize>>

\* rres := readSlice(data, fo, ptrSize, littleEndian)
ReadSlice ==
  /\ pc = "read"
  /\ pc' = "readSlice"
  /\ rres' = readSlice(data, fo, ptrSize, littleEndian)
  /\ UNCHANGED <<version, is64bit, littleEndian, data, pokes, layout, md, err, reads,
                 expected, verr, fo, ptrSize>>

Next ==
  \/ \E v \in Versions, b \in BOOLEAN : Alloc(v, b)
  \/ CreateTest
  \/ \E i \in PokeOffsets, x \in PokeBytes : Poke(i, x)
  \/ \E n \in TruncLens, copy \in BOOLEAN : Truncate(n, copy)
  \/ \E le \in BOOLEAN : Parse(le)
  \/ \E t \in MDTextVAs, tl \in MDSlices, il \in MDSlices, lt \in MDSlices,
        it \in MDSlices : MakeMD(t, tl, il, lt, it)
  \/ \E e \in Expecteds : Validate(e)
  \/ \E n \in ReadBufLens, off \in ReadOffsets, size \in ReadSizes,
        ps \in {U64(4), U64(8)}, le \in BOOLEAN : PickRead(n, off, size, ps, le)
  \/ ReadField
  \/ ReadSlice

Spec == Init /\ [][Next]_vars

(***************************************************************************)
(* Vocabulary of the properties                                            *)
(***************************************************************************)
\* (version, is64bit) is a key of the registry
Registered == (IF is64bit THEN version \o Str_64 ELSE version) \in DOMAIN versionLayoutMap

FieldNames ==
  {"Text", "Types", "ETypes", "Typelinks", "ITablinks", "Ftab", "Minpc", "Textsectmap",
   "LegacyTypes", "Rodata", "Gofunc", "Covctrs", "Ecovctrs", "InitTasks"}

SliceFieldNames == {"Typelinks", "ITablinks", "LegacyTypes", "InitTasks"}

\* the layout field a record field is decoded from
LayoutField(f) == IF f = "TextVA" THEN "Text" ELSE f

\* the buffer holds every field of the layout
LongEnough(d, lay) ==
  \A f \in FieldNames : ToInt(lay[f].Offset) + ToInt(lay[f].Size) <= d.len

\* offset + size > n, computed without wrap-around
TrueSumExceeds(f, n) ==
  Carry(f.Offset, f.Size, 1) = 1 \/ Gt64(Add64(f.Offset, f.Size), U64(n))

\* the unsigned integer stored in the w bytes of d from index off on, read
\* byte by byte in the given byte order
StoredWord(d, off, w, le) ==
  [i \in 1..8 |->
     IF i <= 8 - w THEN 0
     ELSE IF le THEN d.arr[off + (8 - i) + 1]
     ELSE d.arr[off + (i - (8 - w))]]

\* the slice descriptor stored in the three w-byte words of d from off on
StoredSlice(d, off, w, le) ==
  GoSlice64(StoredWord(d, off, w, le), StoredWord(d, off + w, w, le),
            StoredWord(d, off + 2 * w, w, le))

\* the fields ParseModuleData decodes for a version, in decode order
DecodePlan(v) ==
  <<"TextVA", "Types", "ETypes", "Typelinks", "ITablinks">> \o
  (IF HasPrefix(v, Str_1_5) THEN <<"LegacyTypes">>
   ELSE IF Compare(v, Str_1_7) >= 0 THEN
     <<"Rodata", "Gofunc">> \o
     (IF Compare(v, Str_1_20) >= 0 THEN
        <<"Covctrs", "Ecovctrs">> \o
        (IF Compare(v, Str_1_22) >= 0 THEN <<"InitTasks">> ELSE <<>>)
      ELSE <<>>)
   ELSE <<>>)

\* what reading record field f alone from the buffer gives
ReadErr(f) ==
  IF f \in SliceFieldNames
    THEN readSlice(data, layout[LayoutField(f)], layout.PtrSize, littleEndian).err
    ELSE readField(data, layout[LayoutField(f)], littleEndian).err

\* the positions of a plan whose read fails
Failing(plan) == {i \in 1..Len(plan) : ReadErr(plan[i]) # "nil"}

Min(S) == CHOOSE x \in S : \A y \in S : x <= y

(***************************************************************************)
(* C1: for a registered version whose layout has the read-only-data and    *)
(* go-func fields, and a buffer that holds the whole layout,               *)
(* ParseModuleData returns a record whose Rodata and Gofunc are the values *)
(* stored in the buffer at layout.Rodata and layout.Gofunc.                *)
(***************************************************************************)
C1_RodataGofuncDecoded ==
  (/\ pc = "parsed"
   /\ Registered
   /\ layout.Rodata.Size # Zero64
   /\ layout.Gofunc.Size # Zero64
   /\ LongEnough(data, layout))
  => /\ md # Nil
     /\ md[1].Rodata = StoredWord(data, ToInt(layout.Rodata.Offset),
                                  ToInt(layout.Rodata.Size), littleEndian)
     /\ md[1].Gofunc = StoredWord(data, ToInt(layout.Gofunc.Offset),
                                  ToInt(layout.Gofunc.Size), littleEndian)

(***************************************************************************)
(* C2: version "1.22", 64-bit, little-endian, on the 1024-byte test        *)
(* buffer: TextVA is 0x1000, Covctrs and Ecovctrs are as written (0xb000,  *)
(* 0xc000) and InitTasks is (0xd000, 5, 10).                               *)
(***************************************************************************)
C2_InitTasksEra ==
  (/\ pc = "parsed"
   /\ version = Str_1_22
   /\ is64bit
   /\ littleEndian
   /\ data = createTestModuleData(version, is64bit))
  => /\ md # Nil
     /\ md[1].TextVA = U64(\H1000)
     /\ md[1].Covctrs = U64(\Hb000)
     /\ md[1].Ecovctrs = U64(\Hc000)
     /\ md[1].InitTasks = GoSlice64(U64(\Hd000), U64(5), U64(10))

(***************************************************************************)
(* C3: for the versions of the parsing test (1.5, 1.18, 1.22, either       *)
(* bitness) and the buffer the test writes field by field, each            *)
(* always-decoded field that was written is returned with the value        *)
(* written for it, and for "1.5" Typelinks and LegacyTypes are both        *)
(* returned as written.                                                    *)
(***************************************************************************)
C3_FieldsIndependent ==
  (/\ pc = "parsed"
   /\ version \in {Str_1_5, Str_1_18, Str_1_22}
   /\ littleEndian
   /\ data = createTestModuleData(version, is64bit))
  => /\ md # Nil
     /\ md[1].TextVA = U64(\H1000)
     /\ layout.Types.Size # Zero64 => md[1].Types = U64(\H2000)
     /\ layout.ETypes.Size # Zero64 => md[1].ETypes = U64(\H3000)
     /\ md[1].Typelinks = GoSlice64(U64(\H5000), U64(10), U64(20))
     /\ layout.ITablinks.Size # Zero64
          => md[1].ITablinks = GoSlice64(U64(\H6000), U64(15), U64(25))
     /\ version = Str_1_5
          => md[1].LegacyTypes = GoSlice64(U64(\H8000), U64(10), U64(20))

(***************************************************************************)
(* C4: ValidateModuleData(md, expected) returns an error exactly when      *)
(* md.TextVA differs from expected or one of Typelinks, ITablinks,         *)
(* LegacyTypes, InitTasks has Len > Capacity; it leaves md as it was; and  *)
(* when TextVA matches and InitTasks is the only slice with Len > Capacity *)
(* the error is the one that names InitTasks.                              *)
(***************************************************************************)
BadSlices(m) == {f \in SliceFieldNames : Gt64(m[f].Len, m[f].Capacity)}

C4_ValidateStep ==
  (pc # "validated" /\ pc' = "validated")
  => /\ md' = md
     /\ (verr' # "nil") <=> (md'[1].TextVA # expected' \/ BadSlices(md'[1]) # {})
     /\ (md'[1].TextVA = expected' /\ BadSlices(md'[1]) = {"InitTasks"})
          => verr' = "InitTasks"

C4_Validate == [][C4_ValidateStep]_vars

C4_Witness ==
  /\ pc = "validated"
  /\ md[1].TextVA = expected
  /\ md[1].InitTasks = GoSlice64(U64(\Hd000), U64(11), U64(10))
  /\ BadSlices(md[1]) = {"InitTasks"}
  /\ verr = "InitTasks"

(***************************************************************************)
(* C5: getLayout for a version that is not in the registry, with           *)
(* is64bit = true, returns a layout whose PtrSize is 8 and whose fields    *)
(* all have Size 0.  (As stated; the amended statement has PtrSize 4.)     *)
(***************************************************************************)
C5_UnknownPtrSize8 ==
  (pc = "parsed" /\ ~Registered /\ is64bit)
  => /\ layout.PtrSize = U64(8)
     /\ \A f \in FieldNames : layout[f].Size = Zero64

\* C5 as amended: PtrSize is 4, whatever is64bit is, and every field has Size 0
C5_UnknownPtrSize4 ==
  (pc = "parsed" /\ ~Registered /\ is64bit)
  => /\ layout.PtrSize = U64(4)
     /\ \A f \in FieldNames : layout[f].Size = Zero64

C5_Witness ==
  /\ pc = "parsed"
  /\ version = <<57, 46, 57, 57>>
  /\ is64bit
  /\ layout.PtrSize = U64(4)

(***************************************************************************)
(* C6: for a FieldOffset with Size 4 or 8 (readField) or Size 3 * ptrSize  *)
(* (readSlice), whenever the true sum Offset + Size exceeds the buffer     *)
(* length the read returns the bounds error, for every 64-bit Offset.      *)
(***************************************************************************)
C6_BoundsError ==
  /\ (pc = "readField" /\ fo.Size \in {U64(4), U64(8)} /\ TrueSumExceeds(fo, data.len))
       => rres.err = "bounds"
  /\ (pc = "readSlice" /\ fo.Size = U64(3 * ToInt(ptrSize))
        /\ TrueSumExceeds(fo, data.len))
       => rres.err = "bounds"

(***************************************************************************)
(* C7: for a registered (version, bitness), either byte order and a buffer *)
(* of any length and contents, ParseModuleData ends with a record and no   *)
(* error or with no record and an error; it does not panic, and every      *)
(* field it decoded lies inside the buffer.                                *)
(***************************************************************************)
C7_ParseSafe ==
  (pc = "parsed" /\ Registered)
  => /\ err.cause # "panic"
     /\ \/ md # Nil /\ err = NoErr
        \/ md = Nil /\ err # NoErr
     /\ \A i \in 1..Len(reads) :
          LET f == layout[LayoutField(reads[i])] IN
            \/ f.Size = Zero64
            \/ err.field = reads[i]
            \/ /\ ~TrueSumExceeds(f, data.len)
               /\ reads[i] \in SliceFieldNames => f.Size = U64(3 * ToInt(layout.PtrSize))

C7_Witness ==
  /\ pc = "parsed"
  /\ Registered
  /\ data.len = \H6e
  /\ md = Nil
  /\ err = [field |-> "Typelinks", cause |-> "bounds"]

(***************************************************************************)
(* C8: when ParseModuleData fails it returns no record and an error that   *)
(* names the first field, in decode order, whose read fails; no field      *)
(* after it is read; a field the version gate does not decode causes no    *)
(* error.                                                                  *)
(***************************************************************************)
C8_FirstFailure ==
  pc = "parsed"
  => LET plan == DecodePlan(version)
         bad == Failing(plan)
     IN IF bad = {}
          THEN md # Nil /\ err = NoErr /\ reads = plan
          ELSE /\ md = Nil
               /\ err.field = plan[Min(bad)]
               /\ err.cause = ReadErr(plan[Min(bad)])
               /\ reads = SubSeq(plan, 1, Min(bad))

C8_Witness ==
  /\ pc = "parsed"
  /\ md = Nil
  /\ err.field = "Typelinks"
  /\ reads = <<"TextVA", "Types", "ETypes", "Typelinks">>
  /\ Cardinality(Failing(DecodePlan(version))) > 1

(***************************************************************************)
(* C9: for a version string that is not a registry key, either bitness,    *)
(* either byte order and any buffer, the empty one included,               *)
(* ParseModuleData returns no error and a record whose scalars are 0 and   *)
(* whose slices are the zero descriptor.                                   *)
(***************************************************************************)
C9_UnknownVersionZero ==
  (pc = "parsed" /\ ~Registered)
  => /\ err = NoErr
     /\ md # Nil
     /\ \A f \in DOMAIN md[1] :
          md[1][f] = IF f \in SliceFieldNames THEN ZeroSlice ELSE Zero64

C9_Witness ==
  /\ pc = "parsed"
  /\ ~Registered
  /\ data.len = 0
  /\ err = NoErr
  /\ md # Nil

(***************************************************************************)
(* C10: for version "1.5", either bitness, and a buffer that holds the     *)
(* layout with a non-zero descriptor stored at the legacy-types offset,    *)
(* ParseModuleData returns that descriptor as LegacyTypes, Rodata, Gofunc, *)
(* Covctrs and Ecovctrs 0 and InitTasks the zero descriptor.               *)
(***************************************************************************)
StoredLegacy ==
  StoredSlice(data, ToInt(layout.LegacyTypes.Offset), ToInt(layout.PtrSize), littleEndian)

C10_LegacyOnly ==
  (/\ pc = "parsed"
   /\ version = Str_1_5
   /\ LongEnough(data, layout)
   /\ StoredLegacy # ZeroSlice)
  => /\ md # Nil
     /\ md[1].LegacyTypes = StoredLegacy
     /\ md[1].LegacyTypes # ZeroSlice
     /\ md[1].Rodata = Zero64
     /\ md[1].Gofunc = Zero64
     /\ md[1].Covctrs = Zero64
     /\ md[1].Ecovctrs = Zero64
     /\ md[1].InitTasks = ZeroSlice

C10_Witness ==
  /\ pc = "parsed"
  /\ version = Str_1_5
  /\ ~is64bit
  /\ littleEndian
  /\ pokes = 1
  /\ md # Nil
  /\ md[1].LegacyTypes = GoSlice64(U64(\H8000), U64(10), U64(20))

(***************************************************************************)
(* C11: registry invariant.  For every key of versionLayoutMap, PtrSize is *)
(* 4 when the key has no "_64" suffix and 8 when it has one, every present *)
(* scalar field has Size = PtrSize and every present slice field has       *)
(* Size = 3 * PtrSize; hence ParseModuleData with a registered (version,   *)
(* bitness) resolves such a layout and never returns the                   *)
(* unsupported-field-size error.                                           *)
(***************************************************************************)
HasSuffix(s, suffix) ==
  Len(s) >= Len(suffix) /\ SubSeq(s, Len(s) - Len(suffix) + 1, Len(s)) = suffix

RegistryScalars ==
  {"Text", "Types", "ETypes", "Minpc", "Rodata", "Gofunc", "Covctrs", "Ecovctrs"}

RegistrySlices ==
  {"Typelinks", "ITablinks", "Ftab", "Textsectmap", "LegacyTypes", "InitTasks"}

\* a layout is well-formed for pointer width w
WellFormed(lay, w) ==
  /\ lay.PtrSize = U64(w)
  /\ \A f \in RegistryScalars : lay[f].Size = Zero64 \/ lay[f].Size = U64(w)
  /\ \A f \in RegistrySlices : lay[f].Size = Zero64 \/ lay[f].Size = U64(3 * w)

C11_RegistryInvariant ==
  (pc = "parsed" /\ Registered)
  => /\ \A k \in DOMAIN versionLayoutMap :
          WellFormed(versionLayoutMap[k], IF HasSuffix(k, Str_64) THEN 8 ELSE 4)
     /\ WellFormed(layout, IF is64bit THEN 8 ELSE 4)
     /\ err.cause # "unsupported"

C11_Witness ==
  /\ pc = "parsed"
  /\ Registered
  /\ version = Str_1_22
  /\ is64bit
  /\ layout.PtrSize = U64(8)
  /\ layout.InitTasks.Size = U64(24)
  /\ data.len = BufLen
  /\ err = NoErr

====
